---- MODULE Spec2Model ----
(***************************************************************************)
(* TinyDump: the two extraction orchestrators (SoDumper::dump and the      *)
(* DexDumper attach/search/drop lifecycle driven by main), the region      *)
(* table parser, the loader-registry traversal with its pattern fallback   *)
(* and the size clamp.                                                      *)
(*                                                                         *)
(* Widths.  TLC's integers are 32-bit, so a u64 is modelled as a           *)
(* little-endian word of PtrBytes bytes (PtrBytes = 2: 16 bits), with the  *)
(* layout constants that the source writes as multiples of the pointer     *)
(* size kept as those multiples.  Arithmetic is done at that width: an     *)
(* overflowing +, - or * panics in a build with overflow checks and wraps  *)
(* in a build without them (overflow_checks is chosen in Init).            *)
(***************************************************************************)
EXTENDS Integers, Sequences, FiniteSets, TLC

VARIABLES
    mode,             \* "so" | "dex": the branch main takes (main.rs:72-101)
    overflow_checks,  \* build profile: TRUE panics on overflow, FALSE wraps
    pc,               \* position of the run
    maps_text,        \* the lines of /proc/<pid>/maps while the target is stopped
    mem_id,           \* which target memory image (index into Memories)
    solist_offset,    \* sodumper.rs:296
    linker_base,      \* sodumper.rs:302
    target_base,      \* sodumper.rs:305
    target_size,      \* sodumper.rs:306
    solist_addr,      \* sodumper.rs:312
    solist_head,      \* sodumper.rs:315
    current_soinfo,   \* sodumper.rs:190
    iteration_count,  \* sodumper.rs:191
    soinfo_reads,     \* calls of parse_soinfo made by find_target_soinfo
    find_result,      \* what find_target_soinfo returned
    search_result,    \* what search_soinfo_chain returned
    so_size,          \* sodumper.rs:317
    result,           \* the value on its way out: `result` of sodumper.rs:301,
                      \* or what main returns once dex_dumper is dropped
    fix_outcome,      \* how the repair step of dump_so ended
    dex_id,           \* which bytecode scenario (index into DexScenarios)
    tag_case,         \* which endian tag the headerless regions hold
    dex_alive,        \* a DexDumper value exists and has not been dropped
    dex_maps,         \* DexDumper.maps (dexdumper.rs:56)
    region_idx,       \* position of search_dex's loop over filtered_maps
    match_idx,        \* position of process_memory_region's loop over matches
    files,            \* artifacts written: set of [kind, addr, size], with
                      \* the bytes (data) for a file with a synthesized header
    log,              \* what was done to the target and the output, in order
    run_result        \* "none" | "ok" | "err" | "unsupported" | "panic": how
                      \* main ended

vars == << mode, overflow_checks, pc, maps_text, mem_id, solist_offset,
           linker_base, target_base, target_size, solist_addr,
           solist_head, current_soinfo, iteration_count, soinfo_reads,
           find_result, search_result,
           so_size, result, fix_outcome, dex_id, tag_case, dex_alive, dex_maps,
           region_idx, match_idx, files, log, run_result >>

----------------------------------------------------------------------------
(* Widths *)

\* Bytes of a pointer-sized word in the model (the source's PTR_SIZE is 8).
PtrBytes == 2

Pow2(n) == 2 ^ n

U64Max == Pow2(8 * PtrBytes) - 1

\* A Rust Result / Option: Ok(v), Err, or a panic unwinding through the caller.
Ok(v) == [kind |-> "ok", v |-> v]

Err == [kind |-> "err", v |-> 0]

Panic == [kind |-> "panic", v |-> 0]

\* The error of sodumper.rs:139 ("Target SO is 32-bit ..."), told apart from
\* every other error.
Unsupported == [kind |-> "unsupported", v |-> 0]

\* A run or a closure ended with an error value.
IsError(r) == r \in {"err", "unsupported"}

\* a + b on u64.
AddU64(a, b) ==
    IF a + b <= U64Max THEN Ok(a + b)
    ELSE IF overflow_checks THEN Panic
    ELSE Ok((a + b) % (U64Max + 1))

\* a - b on u64.
SubU64(a, b) ==
    IF a >= b THEN Ok(a - b)
    ELSE IF overflow_checks THEN Panic
    ELSE Ok((a - b) % (U64Max + 1))

\* a * b on u64.
MulU64(a, b) ==
    IF a * b <= U64Max THEN Ok(a * b)
    ELSE IF overflow_checks THEN Panic
    ELSE Ok((a * b) % (U64Max + 1))

----------------------------------------------------------------------------
(* Text: str::split, str::split_whitespace, str::contains, from_str_radix *)

At(s, i) == SubSeq(s, i, i)

RECURSIVE SplitFrom(_, _, _, _)
SplitFrom(s, i, cur, sep) ==
    IF i > Len(s) THEN << cur >>
    ELSE IF At(s, i) = sep THEN << cur >> \o SplitFrom(s, i + 1, "", sep)
    ELSE SplitFrom(s, i + 1, cur \o At(s, i), sep)

\* str::split(sep): empty pieces are kept.
Split(s, sep) == SplitFrom(s, 1, "", sep)

\* str::split_whitespace: empty pieces are dropped (the lines hold spaces only).
SplitWhitespace(s) == SelectSeq(Split(s, " "), LAMBDA p : p # "")

\* str::contains.
Contains(hay, needle) ==
    \E i \in 1 .. (Len(hay) - Len(needle) + 1) :
        SubSeq(hay, i, i + Len(needle) - 1) = needle

Digits == "0123456789abcdef"

UpperDigits == "0123456789ABCDEF"

\* char::to_digit(radix): -1 for a character that is no digit of the radix.
ToDigit(c, radix) ==
    IF \E i \in 1 .. radix : At(Digits, i) = c
    THEN (CHOOSE i \in 1 .. radix : At(Digits, i) = c) - 1
    ELSE IF \E i \in 1 .. radix : At(UpperDigits, i) = c
    THEN (CHOOSE i \in 1 .. radix : At(UpperDigits, i) = c) - 1
    ELSE -1

RECURSIVE ParseDigits(_, _, _, _)
ParseDigits(s, i, acc, radix) ==
    IF i > Len(s) THEN Ok(acc)
    ELSE LET d == ToDigit(At(s, i), radix) IN
         IF d < 0 THEN Err
         ELSE IF acc * radix + d > U64Max THEN Err
         ELSE ParseDigits(s, i + 1, acc * radix + d, radix)

\* u64::from_str_radix(s, radix) and str::parse::<u64>() (radix 10): a leading
\* "+" is accepted, an empty string, a lone sign, a non-digit or a value past
\* the width is an error.
FromStrRadix(s, radix) ==
    IF s = "" THEN Err
    ELSE IF At(s, 1) = "+" THEN
        (IF Len(s) = 1 THEN Err ELSE ParseDigits(s, 2, 0, radix))
    ELSE ParseDigits(s, 1, 0, radix)

----------------------------------------------------------------------------
(* The region table: SoDumper::parse_proc_maps and its two users *)

\* The fields of a line with six or more parts (sodumper.rs:80-101), in the
\* order of the source: Err as soon as a numeric field fails to parse (the
\* `?` of lines 81-86), Panic when the first field holds no '-'
\* (addr_range[1], line 82, is out of bounds).
ParseFields(addr_range, parts) ==
    IF FromStrRadix(addr_range[1], 16).kind # "ok" THEN Err
    ELSE IF Len(addr_range) < 2 THEN Panic
    ELSE IF FromStrRadix(addr_range[2], 16).kind # "ok" THEN Err
    ELSE IF FromStrRadix(parts[3], 16).kind # "ok" THEN Err
    ELSE IF FromStrRadix(parts[5], 10).kind # "ok" THEN Err
    ELSE Ok([start |-> FromStrRadix(addr_range[1], 16).v,
             end |-> FromStrRadix(addr_range[2], 16).v,
             permissions |-> parts[2],
             offset |-> FromStrRadix(parts[3], 16).v,
             device |-> parts[4],
             inode |-> FromStrRadix(parts[5], 10).v,
             pathname |-> parts[6]])

\* sodumper.rs:79: a line with fewer than six parts is left out.
ParseParts(parts) ==
    IF Len(parts) < 6 THEN [kind |-> "none", v |-> 0]
    ELSE ParseFields(Split(parts[1], "-"), parts)

\* One line of the table (sodumper.rs:76-102).
ParseMapsLine(line) == ParseParts(SplitWhitespace(line))

RECURSIVE ParseMapsFrom(_, _, _)
\* The loop body of sodumper.rs:75-103 for line i, parsed as r.
ParseMapsStep(lines, i, mappings, r) ==
    CASE r.kind = "none"  -> ParseMapsFrom(lines, i + 1, mappings)
      [] r.kind = "ok"    -> ParseMapsFrom(lines, i + 1, Append(mappings, r.v))
      [] r.kind = "err"   -> Err
      [] r.kind = "panic" -> Panic

ParseMapsFrom(lines, i, mappings) ==
    IF i > Len(lines) THEN Ok(mappings)
    ELSE ParseMapsStep(lines, i, mappings, ParseMapsLine(lines[i]))

\* SoDumper::parse_proc_maps on a table that could be opened.
parse_proc_maps(lines) == ParseMapsFrom(lines, 1, << >>)

LinkerName == "linker64"

\* sodumper.rs:111-117: the start of the first mapping whose path contains
\* "linker64".
FirstLinker(mappings) ==
    IF \E k \in 1 .. Len(mappings) : Contains(mappings[k].pathname, LinkerName)
    THEN Ok(mappings[CHOOSE k \in 1 .. Len(mappings) :
                /\ Contains(mappings[k].pathname, LinkerName)
                /\ \A j \in 1 .. (k - 1) :
                      ~Contains(mappings[j].pathname, LinkerName)].start)
    ELSE Err

LinkerOf(r) == IF r.kind # "ok" THEN r ELSE FirstLinker(r.v)

\* SoDumper::get_linker_base.
get_linker_base(lines) == LinkerOf(parse_proc_maps(lines))

\* 0x7fffffff for an 8-byte pointer: the largest 32-bit user address.
SplitThreshold == Pow2(4 * PtrBytes - 1) - 1

\* sodumper.rs:122-132: target_start is set by the first matching mapping
\* only, target_end by every matching mapping: the last one stays.
\* A variant of TargetBounds that takes both bounds from the first matching
\* mapping.
TargetBoundsOfFirst(hits) ==
    [start |-> hits[1].start, end |-> hits[1].end]

TargetBounds(hits) ==
    [start |-> hits[1].start, end |-> hits[Len(hits)].end]

\* sodumper.rs:134-146.
TargetChecked(hits) ==
    IF Len(hits) = 0 THEN Err
    ELSE IF hits[1].start > SplitThreshold THEN Ok(TargetBounds(hits))
    ELSE Unsupported

TargetOf(r, target_name) ==
    IF r.kind # "ok" THEN r
    ELSE TargetChecked(SelectSeq(r.v, LAMBDA m : Contains(m.pathname, target_name)))

\* SoDumper::get_target_mapping: an error when no mapping's path contains
\* the target name or when the start is not above the 32-bit threshold.
get_target_mapping(lines, target_name) ==
    TargetOf(parse_proc_maps(lines), target_name)

----------------------------------------------------------------------------
(* Target memory: SoDumper::read_process_memory and the soinfo registry *)

\* u64::to_le_bytes.
ToLeBytes(x) == [i \in 1 .. PtrBytes |-> (x \div Pow2(8 * (i - 1))) % 256]

RECURSIVE LeValue(_, _)
LeValue(bytes, i) ==
    IF i > Len(bytes) THEN 0
    ELSE bytes[i] * Pow2(8 * (i - 1)) + LeValue(bytes, i + 1)

\* Cursor::read_u64::<LittleEndian> on a pointer-sized slice.
ReadU64LE(bytes) == LeValue(bytes, 1)

\* A memory image is a sequence of mapped segments [lo, len, data]; data is
\* the segment's bytes, or << >> for a segment whose content is all zero.
SegOf(mem, address, size) ==
    { k \in 1 .. Len(mem) :
        mem[k].lo <= address /\ address + size <= mem[k].lo + mem[k].len }

ByteAt(seg, address) ==
    IF seg.data = << >> THEN 0 ELSE seg.data[address - seg.lo + 1]

\* Whether seek + read_exact of size bytes at address succeeds
\* (sodumper.rs:152-155): an empty read always does.
Readable(mem, address, size) == size = 0 \/ SegOf(mem, address, size) # {}

\* SoDumper::read_process_memory.
read_process_memory(mem, address, size) ==
    IF size = 0 THEN Ok(<< >>)
    ELSE IF SegOf(mem, address, size) = {} THEN Err
    ELSE LET seg == mem[CHOOSE k \in SegOf(mem, address, size) : TRUE] IN
         Ok([i \in 1 .. size |-> ByteAt(seg, address + i - 1)])

\* sodumper.rs:170-175: 256 bytes are read, the fields sit at 0x10, 0x18 and
\* 0x28, for PTR_SIZE = 8.
SOINFO_READ == 32 * PtrBytes

OFF_BASE == 2 * PtrBytes

OFF_SIZE == 3 * PtrBytes

OFF_NEXT == 5 * PtrBytes

\* SoDumper::get_solist_head.
get_solist_head(mem, addr) ==
    LET data == read_process_memory(mem, addr, PtrBytes) IN
    IF data.kind # "ok" THEN Err ELSE Ok(ReadU64LE(data.v))

\* SoDumper::parse_soinfo.
parse_soinfo(mem, soinfo_addr) ==
    LET data == read_process_memory(mem, soinfo_addr, SOINFO_READ) IN
    IF data.kind # "ok" THEN Err
    ELSE Ok([base |-> ReadU64LE(SubSeq(data.v, OFF_BASE + 1, OFF_BASE + PtrBytes)),
             size |-> ReadU64LE(SubSeq(data.v, OFF_SIZE + 1, OFF_SIZE + PtrBytes)),
             next |-> ReadU64LE(SubSeq(data.v, OFF_NEXT + 1, OFF_NEXT + PtrBytes))])

\* sodumper.rs:192.
MAX_ITERATIONS == 1000

\* A variant of the loop condition that lets the counter reach the cap before
\* it stops: one record more is read.
FindLoopGuardInclusive(current, count) ==
    current # 0 /\ count <= MAX_ITERATIONS

\* The loop condition of find_target_soinfo (sodumper.rs:194).
FindLoopGuard(current, count) == current # 0 /\ count < MAX_ITERATIONS

\* Records of the soinfo size that the fallback window spans in the model
\* (the source reads 256 * 1024 bytes: 1024 records).
WindowRecords == 2

CHAIN_WINDOW == WindowRecords * SOINFO_READ

\* The offsets (0-based) at which the pattern occurs in the window and the
\* word after it lies inside the window (sodumper.rs:218-221).
PatternHits(chain_data, target_pattern) ==
    { i \in 0 .. (Len(chain_data) - Len(target_pattern)) :
        /\ SubSeq(chain_data, i + 1, i + Len(target_pattern)) = target_pattern
        /\ i + PtrBytes + PtrBytes <= Len(chain_data) }

\* A variant of FirstHit that takes the last hit of the window.
LastHit(hits) == CHOOSE i \in hits : \A j \in hits : i >= j

\* Which of the hits the scan returns: the first one in window order.
FirstHit(hits) == CHOOSE i \in hits : \A j \in hits : i <= j

\* SoDumper::search_soinfo_chain.
search_soinfo_chain(mem, head, base) ==
    LET chain_data == read_process_memory(mem, head, CHAIN_WINDOW) IN
    IF chain_data.kind # "ok" THEN Err
    ELSE LET hits == PatternHits(chain_data.v, ToLeBytes(base)) IN
         IF hits = {} THEN Err
         ELSE LET offset == FirstHit(hits) + PtrBytes IN
              Ok(ReadU64LE(SubSeq(chain_data.v, offset + 1, offset + PtrBytes)))

\* A variant of the clamp that keeps every size it is given.
ClampSizeKept(size, raw) == Ok(size)

\* The plausibility clamp of sodumper.rs:319-324 and 330-335: a size above
\* target_size * 10 is replaced by target_size.  The product is a u64 product.
ClampSize(size, raw) ==
    LET limit == MulU64(raw, 10) IN
    IF limit.kind # "ok" THEN Panic
    ELSE IF size > limit.v THEN Ok(raw) ELSE Ok(size)

----------------------------------------------------------------------------
(* Inputs: region tables and memory images of the stopped target *)

\* --target (main.rs:92-94).
TargetName == "libt.so"

LinkerLine == "0080-0100 r-xp 0000 fd:00 11 /system/bin/linker64"

AnonLine == "0100-0180 rw-p 0000 00:00 0"

RegistryLine == "8000-8200 rw-p 0000 00:00 0 [anon:linker_alloc]"

\* The tables /proc/<pid>/maps is read as.  The parser takes any text, so the
\* list holds well-formed tables and damaged ones.
MapsTables ==
    << \* 1: linker, a five-field line, the target in two mappings
       << LinkerLine, AnonLine,
          "7000-7100 r-xp 0000 fd:01 22 /data/app/libt.so",
          "7100-7200 rw-p 0100 fd:01 22 /data/app/libt.so",
          RegistryLine >>,
       \* 2: a target so large that ten times its size passes the word
       << LinkerLine,
          "2000-4000 r-xp 0000 fd:01 22 /data/app/libt.so",
          RegistryLine >>,
       \* 3: a target below the 32-bit threshold
       << LinkerLine, "0040-0060 r-xp 0000 fd:01 22 /data/app/libt.so" >>,
       \* 4: no mapping of the target
       << LinkerLine, "7000-7100 r-xp 0000 fd:01 23 /data/app/libu.so" >>,
       \* 5: no mapping of the loader
       << "7000-7200 r-xp 0000 fd:01 22 /data/app/libt.so" >>,
       \* 6: an end address that is no hex number
       << LinkerLine, "7000-71zz r-xp 0000 fd:01 22 /data/app/libt.so" >>,
       \* 7: a first field without '-'
       << LinkerLine, "7000 r-xp 0000 fd:01 22 /data/app/libt.so" >>,
       \* 8: the target's mappings out of order: the last end is below the
       \* first start
       << LinkerLine,
          "7100-7200 rw-p 0100 fd:01 22 /data/app/libt.so",
          "6000-6100 r-xp 0000 fd:01 22 /data/app/libt.so" >> >>

\* The registry's records lie from the middle of the address space on.
RegBase == Pow2(8 * PtrBytes - 1)

NodeAddr(k) == RegBase + (k - 1) * SOINFO_READ

Field(i, off, value) ==
    IF i > off /\ i <= off + PtrBytes THEN ToLeBytes(value)[i - off] ELSE -1

\* The bytes of one soinfo record holding base, size and next; zero elsewhere.
Node(base, size, next) ==
    [i \in 1 .. SOINFO_READ |->
        IF Field(i, OFF_BASE, base) >= 0 THEN Field(i, OFF_BASE, base)
        ELSE IF Field(i, OFF_SIZE, size) >= 0 THEN Field(i, OFF_SIZE, size)
        ELSE IF Field(i, OFF_NEXT, next) >= 0 THEN Field(i, OFF_NEXT, next)
        ELSE 0]

RECURSIVE Flatten(_)
Flatten(ss) == IF ss = << >> THEN << >> ELSE Head(ss) \o Flatten(Tail(ss))

\* The loader's image (mapped at 0x80 by LinkerLine) with the registry head
\* pointer at offset 0x10, the registry records, and the target's image.
Image(head, nodes, lib_lo, lib_len) ==
    << [lo |-> 128, len |-> 128,
        data |-> [i \in 1 .. 128 |->
                    IF Field(i, 16, head) >= 0 THEN Field(i, 16, head) ELSE 0]],
       [lo |-> RegBase, len |-> Len(nodes) * SOINFO_READ, data |-> Flatten(nodes)],
       [lo |-> lib_lo, len |-> lib_len, data |-> << >>] >>

Memories ==
    << \* 1: the target is the third of five records (a later record repeats
       \*    its base)
       Image(NodeAddr(1),
             << Node(20480, 256, NodeAddr(2)), Node(24576, 256, NodeAddr(3)),
                Node(28672, 384, NodeAddr(4)), Node(30720, 256, NodeAddr(5)),
                Node(28672, 273, 0) >>, 28672, 512),
       \* 2: the target's record holds an implausible size
       Image(NodeAddr(1),
             << Node(20480, 256, NodeAddr(2)), Node(28672, 28672, 0) >>,
             28672, 512),
       \* 3: a null-terminated list without the target
       Image(NodeAddr(1),
             << Node(20480, 256, NodeAddr(2)), Node(24576, 256, NodeAddr(3)),
                Node(30720, 256, 0) >>, 28672, 512),
       \* 4: a cyclic list without the target
       Image(NodeAddr(1),
             << Node(20480, 256, NodeAddr(2)), Node(24576, 256, NodeAddr(1)) >>,
             28672, 512),
       \* 5: the first record's next pointer is unmapped; the target's record
       \*    lies behind it, inside the fallback window
       Image(NodeAddr(1),
             << Node(20480, 256, 4), Node(28672, 448, 0) >>, 28672, 512),
       \* 6: as 5, with an implausible size
       Image(NodeAddr(1),
             << Node(20480, 256, 4), Node(28672, 28672, 0) >>, 28672, 512),
       \* 7: a null head pointer
       Image(0,
             << Node(20480, 256, NodeAddr(2)), Node(28672, 384, 0) >>,
             28672, 512),
       \* 8: the large target of table 2, found by the traversal
       Image(NodeAddr(1),
             << Node(20480, 256, NodeAddr(2)), Node(8192, 4096, 0) >>,
             8192, 8192),
       \* 9: a record that points to itself; the target's record lies behind it
       Image(NodeAddr(1),
             << Node(20480, 256, NodeAddr(1)), Node(28672, 448, 0) >>,
             28672, 512),
       \* 10: the recorded size is plausible but larger than what is mapped
       Image(NodeAddr(1), << Node(28672, 768, 0), Node(20480, 256, 0) >>,
             28672, 512),
       \* 11: a single record, not the target: the fallback window is unmapped
       Image(NodeAddr(1), << Node(20480, 256, 0) >>, 28672, 512),
       \* 12: the large target of table 2, found by the fallback only
       Image(NodeAddr(1),
             << Node(20480, 256, 4), Node(8192, 4096, 0) >>, 8192, 8192),
       \* 13: a head pointer into the middle of the first record: the window
       \*     read from it ends right after the base field of the target's
       \*     record
       Image(NodeAddr(WindowRecords + 1) + OFF_BASE + PtrBytes - CHAIN_WINDOW,
             [k \in 1 .. (WindowRecords + 1) |->
                 IF k = WindowRecords + 1 THEN Node(28672, 448, 0)
                 ELSE Node(20480, 256, 0)],
             28672, 512),
       \* 14: as 5, and the size field of the first record holds the value of
       \*     the target's base
       Image(NodeAddr(1),
             << Node(20480, 28672, 4), Node(28672, 448, 0) >>, 28672, 512) >>

Mem == Memories[mem_id]

\* The st_value of the loader's solist symbol (sodumper.rs:49): the offset the
\* images use, and one that carries loader base + offset past the word.
SolistOffsets == {16, U64Max - 15}

----------------------------------------------------------------------------
(* The log of what a run does to the target and to the output directory *)

Signals == {"stop_ok", "stop_fail", "cont_ok", "cont_fail"}

\* Signals are logged one by one; a repeated access of the same kind (enum:
\* the region table is read, read: target memory is read, write: an output
\* file is created or written) is logged once.
Logged(l, e) ==
    IF e \notin Signals /\ Len(l) > 0 /\ l[Len(l)] = e THEN l ELSE Append(l, e)

RECURSIVE LoggedAll(_, _)
LoggedAll(l, es) ==
    IF es = << >> THEN l ELSE LoggedAll(Logged(l, Head(es)), Tail(es))

----------------------------------------------------------------------------
(* main and SoDumper::dump *)

inputs == << mode, overflow_checks, maps_text, mem_id, solist_offset, dex_id,
            tag_case >>

dexState == << dex_alive, dex_maps, region_idx, match_idx >>

\* main returns (or unwinds) with res.
Finish(res) == pc' = "done" /\ run_result' = res

\* main.rs:36-48 and 72-98: the arguments, the pid and the output directory;
\* any of them failing ends the run before a dumper exists.
Main ==
    /\ pc = "main"
    /\ \E ok \in BOOLEAN :
        IF ok
        THEN pc' = (IF mode = "so" THEN "so_extract" ELSE "dex_new")
             /\ run_result' = run_result
        ELSE Finish("err")
    /\ UNCHANGED << inputs, dexState, fix_outcome, linker_base, target_base, target_size,
                    solist_addr, solist_head, current_soinfo, iteration_count,
                    soinfo_reads, find_result, search_result, so_size,
                    result, files, log >>

\* sodumper.rs:291-297: the repair tool is unpacked and the solist symbol is
\* looked up in the loader's file; either failing returns the error.
SoPrepare ==
    /\ pc = "so_extract"
    /\ \E extracted \in BOOLEAN, symbol_found \in BOOLEAN :
        IF extracted /\ symbol_found
        THEN pc' = "so_stop" /\ run_result' = run_result
        ELSE Finish("err")
    /\ UNCHANGED << inputs, dexState, fix_outcome, linker_base, target_base, target_size,
                    solist_addr, solist_head, current_soinfo, iteration_count,
                    soinfo_reads, find_result, search_result, so_size,
                    result, files, log >>

\* A variant of StopFailed that goes on with the extraction.
StopIgnored == pc' = "so_linker" /\ run_result' = run_result

\* What SoDumper::dump does when kill(SIGSTOP) fails (sodumper.rs:299, 58).
StopFailed == Finish("err")

\* sodumper.rs:299: stop_process()?
SoStop ==
    /\ pc = "so_stop"
    /\ \E delivered \in BOOLEAN :
        IF delivered
        THEN /\ log' = Logged(log, "stop_ok")
             /\ pc' = "so_linker"
             /\ run_result' = run_result
        ELSE /\ log' = Logged(log, "stop_fail")
             /\ StopFailed
    /\ UNCHANGED << inputs, dexState, fix_outcome, linker_base, target_base, target_size,
                    solist_addr, solist_head, current_soinfo, iteration_count,
                    soinfo_reads, find_result, search_result, so_size,
                    result, files >>

\* A variant of ClosureReturns in which dump returns the closure's value at
\* once, as a `?` outside a closure would.
ClosureReturnsEarly(r) ==
    /\ result' = r
    /\ Finish(r)

\* The closure of sodumper.rs:301-348 returns r ("ok", "err" or
\* "unsupported"): control
\* passes to line 350.
ClosureReturns(r) ==
    /\ result' = r
    /\ pc' = "so_cont"
    /\ run_result' = run_result

\* A panic inside the closure unwinds out of dump and main.
ClosurePanics ==
    /\ result' = result
    /\ Finish("panic")

\* sodumper.rs:302: get_linker_base()?  File::open of the table may fail.
SoLinker ==
    /\ pc = "so_linker"
    /\ \E opened \in BOOLEAN :
        IF ~opened
        THEN /\ ClosureReturns("err")
             /\ UNCHANGED << linker_base, log >>
        ELSE \E r \in { get_linker_base(maps_text) } :
             /\ log' = Logged(log, "enum")
             /\ CASE r.kind = "ok" ->
                       /\ linker_base' = r.v
                       /\ pc' = "so_target"
                       /\ UNCHANGED << result, run_result >>
                  [] r.kind = "err" ->
                       ClosureReturns("err") /\ UNCHANGED linker_base
                  [] r.kind = "panic" ->
                       ClosurePanics /\ UNCHANGED linker_base
    /\ UNCHANGED << inputs, dexState, fix_outcome, target_base, target_size, solist_addr,
                    solist_head, current_soinfo, iteration_count,
                    soinfo_reads, find_result, search_result, so_size, files >>

\* sodumper.rs:305-313: get_target_mapping()?, target_end - target_base,
\* linker_base + solist_offset.
SoTarget ==
    /\ pc = "so_target"
    /\ \E opened \in BOOLEAN :
        IF ~opened
        THEN /\ ClosureReturns("err")
             /\ UNCHANGED << target_base, target_size, solist_addr, log >>
        ELSE \E r \in { get_target_mapping(maps_text, TargetName) } :
             /\ log' = Logged(log, "enum")
             /\ CASE r.kind \in {"err", "unsupported"} ->
                       /\ ClosureReturns(r.kind)
                       /\ UNCHANGED << target_base, target_size, solist_addr >>
                  [] r.kind = "panic" ->
                       /\ ClosurePanics
                       /\ UNCHANGED << target_base, target_size, solist_addr >>
                  [] r.kind = "ok" ->
                       \E size \in { SubU64(r.v.end, r.v.start) },
                          addr \in { AddU64(linker_base, solist_offset) } :
                       IF size.kind = "panic" \/ addr.kind = "panic"
                       THEN /\ ClosurePanics
                            /\ UNCHANGED << target_base, target_size, solist_addr >>
                       ELSE /\ target_base' = r.v.start
                            /\ target_size' = size.v
                            /\ solist_addr' = addr.v
                            /\ pc' = "so_head"
                            /\ UNCHANGED << result, run_result >>
    /\ UNCHANGED << inputs, dexState, fix_outcome, linker_base, solist_head,
                    current_soinfo, iteration_count, soinfo_reads,
                    find_result, search_result, so_size, files >>

\* sodumper.rs:315: get_solist_head(solist_addr)?, then find_target_soinfo is
\* entered (lines 190-191).
SoHead ==
    /\ pc = "so_head"
    /\ log' = Logged(log, "read")
    /\ LET r == get_solist_head(Mem, solist_addr) IN
       IF r.kind = "ok"
       THEN /\ solist_head' = r.v
            /\ current_soinfo' = r.v
            /\ iteration_count' = 0
            /\ pc' = "so_find"
            /\ UNCHANGED << result, run_result >>
       ELSE /\ ClosureReturns("err")
            /\ UNCHANGED << solist_head, current_soinfo, iteration_count >>
    /\ UNCHANGED << inputs, dexState, fix_outcome, linker_base, target_base, target_size,
                    solist_addr, soinfo_reads, find_result, search_result,
                    so_size, files >>

\* find_target_soinfo returns r to the match of sodumper.rs:317.
FindReturns(r) ==
    /\ find_result' = r
    /\ pc' = "so_resolve"
    /\ UNCHANGED << current_soinfo, iteration_count >>

\* One evaluation of the loop of find_target_soinfo (sodumper.rs:194-210).
SoFindStep ==
    /\ pc = "so_find"
    /\ IF FindLoopGuard(current_soinfo, iteration_count)
       THEN LET r == parse_soinfo(Mem, current_soinfo) IN
            /\ soinfo_reads' = soinfo_reads + 1
            /\ log' = Logged(log, "read")
            /\ IF r.kind # "ok" THEN FindReturns(Err)
               ELSE IF r.v.base = target_base THEN FindReturns(Ok(r.v.size))
               ELSE /\ current_soinfo' = r.v.next
                    /\ iteration_count' = iteration_count + 1
                    /\ UNCHANGED << find_result, pc >>
       ELSE /\ FindReturns(Err)
            /\ UNCHANGED << soinfo_reads, log >>
    /\ UNCHANGED << inputs, dexState, fix_outcome, linker_base, target_base, target_size,
                    solist_addr, solist_head, search_result, so_size,
                    result, files, run_result >>

\* A variant of NeedsFallback that runs the pattern search in every case.
AlwaysFallback(found) == TRUE

\* The arms of the match of sodumper.rs:317-327: search_soinfo_chain is called
\* in the Err arm only.
NeedsFallback(found) == found.kind # "ok"

\* The size the match of sodumper.rs:317-343 yields; searched is what
\* search_soinfo_chain returned when it was called.
ResolveSize(found, searched, raw) ==
    IF found.kind = "ok" THEN ClampSize(found.v, raw)
    ELSE IF searched.kind = "ok" THEN ClampSize(searched.v, raw)
    ELSE Ok(raw)

\* sodumper.rs:317-343.
SoResolve ==
    /\ pc = "so_resolve"
    /\ LET searched == IF NeedsFallback(find_result)
                       THEN search_soinfo_chain(Mem, solist_head, target_base)
                       ELSE Err
           r == ResolveSize(find_result, searched, target_size)
       IN
       /\ search_result' = (IF NeedsFallback(find_result) THEN searched
                            ELSE search_result)
       /\ log' = (IF NeedsFallback(find_result) THEN Logged(log, "read") ELSE log)
       /\ IF r.kind = "panic"
          THEN ClosurePanics /\ UNCHANGED so_size
          ELSE /\ so_size' = r.v
               /\ pc' = "so_dump"
               /\ UNCHANGED << result, run_result >>
    /\ UNCHANGED << inputs, dexState, fix_outcome, linker_base, target_base, target_size,
                    solist_addr, solist_head, current_soinfo, iteration_count,
                    soinfo_reads, find_result, files >>

\* How auto_fix_so can end (sodumper.rs:261-281, sofixer.rs:43-69): repaired,
\* the tool could not be unpacked, could not be started, or exited non-zero.
FixOutcomes == {"ok", "extract_err", "spawn_err", "exit_nonzero"}

\* sodumper.rs:345 with dump_so (234-259): the span is read, the dump file is
\* created and written, the repair step runs and its failure is only printed.
SoDump ==
    /\ pc = "so_dump"
    /\ IF ~Readable(Mem, target_base, so_size)
       THEN /\ log' = Logged(log, "read")
            /\ ClosureReturns("err")
            /\ UNCHANGED << files, fix_outcome >>
       ELSE \E created \in BOOLEAN, written \in BOOLEAN :
            /\ log' = LoggedAll(log, << "read", "write" >>)
            /\ IF created /\ written
               THEN \E fix \in FixOutcomes :
                    /\ files' = files \cup
                         { [kind |-> "so", addr |-> target_base, size |-> so_size] }
                            \cup (IF fix = "ok"
                                  THEN { [kind |-> "so_fixed", addr |-> target_base,
                                          size |-> so_size] }
                                  ELSE {})
                    /\ fix_outcome' = fix
                    /\ ClosureReturns("ok")
               ELSE /\ UNCHANGED << files, fix_outcome >>
                    /\ ClosureReturns("err")
    /\ UNCHANGED << inputs, dexState, linker_base, target_base, target_size,
                    solist_addr, solist_head, current_soinfo, iteration_count,
                    soinfo_reads, find_result, search_result, so_size >>

\* What dump returns after continue_process (sodumper.rs:350-352):
\* `self.continue_process()?; result`.
DumpReturn(delivered, closure) == IF delivered THEN closure ELSE "err"

\* sodumper.rs:350-352.
SoCont ==
    /\ pc = "so_cont"
    /\ \E delivered \in BOOLEAN :
        /\ log' = Logged(log, IF delivered THEN "cont_ok" ELSE "cont_fail")
        /\ Finish(DumpReturn(delivered, result))
    /\ UNCHANGED << inputs, dexState, fix_outcome, linker_base, target_base,
                    target_size, solist_addr, solist_head, current_soinfo,
                    iteration_count, soinfo_reads, find_result, search_result,
                    so_size, result, files >>

----------------------------------------------------------------------------
(* DexDumper: the bytecode scan, at the level of the header fields it reads *)

\* A u32 has half the bytes of a pointer.
U32Max == Pow2(4 * PtrBytes) - 1

\* dexdumper.rs:14-22.
DEX_HEADER_SIZE == 112

DEX_FILE_SIZE_OFFSET == 32

DEX_ENDIAN_TAG_OFFSET == 40

DEX_STRING_IDS_OFFSET == 60

DEX_MAP_OFFSET == 52

MIN_MEMORY_SIZE == 96

\* What the scan sees of the target: maps is what get_process_maps returns
\* (regions [start, size, is_read, filename], filename "" for none); cells
\* gives the u32 stored at each address a header value can be read from;
\* spans are the address ranges read_exact can read; content gives, for a
\* region, the offsets at which the signature matches and whether the region
\* starts with "dex".
DexScenarios ==
    << \* 1: a region with two matches (the second with a foreign
       \*    string-table offset), a region without a header whose map is
       \*    intact, an unreadable region, and three filtered ones
       [ maps |-> Ok(<< [start |-> 4096, size |-> 512, is_read |-> TRUE,
                         filename |-> "/data/app/base.apk"],
                        [start |-> 12288, size |-> 256, is_read |-> TRUE,
                         filename |-> ""],
                        [start |-> 16384, size |-> 256, is_read |-> TRUE,
                         filename |-> ""],
                        [start |-> 20480, size |-> 80, is_read |-> TRUE,
                         filename |-> ""],
                        [start |-> 24576, size |-> 256, is_read |-> TRUE,
                         filename |-> "/system/framework/boot.vdex"],
                        [start |-> 28672, size |-> 256, is_read |-> FALSE,
                         filename |-> ""] >>),
         cells |-> (4096 + 32 :> 200) @@ (4096 + 60 :> 112) @@ (4096 + 52 :> 128)
                   @@ (4096 + 128 :> 5)
                   @@ (4352 + 32 :> 90) @@ (4352 + 60 :> 113) @@ (4352 + 52 :> 16)
                   @@ (4352 + 16 :> 1)
                   @@ (12288 + 32 :> 0) @@ (12288 + 60 :> 112)
                   @@ (12288 + 52 :> 144) @@ (12288 + 144 :> 3),
         spans |-> { [lo |-> 4096, len |-> 512], [lo |-> 12288, len |-> 256] },
         content |-> (4096 :> [matches |-> << 0, 256 >>, starts_dex |-> TRUE])
                     @@ (12288 :> [matches |-> << >>, starts_dex |-> FALSE]) ],
       \* 2: the region table cannot be read
       [ maps |-> Err, cells |-> << >>, spans |-> {}, content |-> << >> ],
       \* 3: a region at the top of the address space: the header fields of
       \*    its second match lie past the last address, and the map offset
       \*    of its first match leads past it
       [ maps |-> Ok(<< [start |-> U64Max - 255, size |-> 256, is_read |-> TRUE,
                         filename |-> ""] >>),
         cells |-> (U64Max - 127 + 32 :> 10) @@ (U64Max - 127 + 60 :> 112)
                   @@ (U64Max - 127 + 52 :> 200),
         spans |-> { [lo |-> U64Max - 255, len |-> 256] },
         content |-> (U64Max - 255 :>
                        [matches |-> << 128, 240 >>, starts_dex |-> FALSE]) ],
       \* 4: no candidate region at all
       [ maps |-> Ok(<< >>), cells |-> << >>, spans |-> {}, content |-> << >> ],
       \* 5: matches whose size computation passes a u32, a match whose span
       \*    runs past the mapping, and a headerless region whose guess is
       \*    shorter than a header
       [ maps |-> Ok(<< [start |-> 4096, size |-> 512, is_read |-> TRUE,
                         filename |-> ""],
                        [start |-> 12288, size |-> 256, is_read |-> TRUE,
                         filename |-> "/data/dalvik-cache"] ,
                        [start |-> 16384, size |-> 256, is_read |-> TRUE,
                         filename |-> "/data/app/lib.so"] >>),
         cells |-> (4096 + 32 :> 200) @@ (4096 + 60 :> 112) @@ (4096 + 52 :> 128)
                   @@ (4096 + 128 :> 5)
                   @@ (4352 + 32 :> 90) @@ (4352 + 60 :> 112) @@ (4352 + 52 :> 16)
                   @@ (4352 + 16 :> 21)
                   @@ (4416 + 32 :> 90) @@ (4416 + 60 :> 112) @@ (4416 + 52 :> 16)
                   @@ (4416 + 16 :> 22)
                   @@ (4496 + 32 :> 90) @@ (4496 + 60 :> 112) @@ (4496 + 52 :> 16)
                   @@ (4496 + 16 :> 10)
                   @@ (16384 + 32 :> 0) @@ (16384 + 60 :> 112)
                   @@ (16384 + 52 :> 8) @@ (16384 + 8 :> 1),
         spans |-> { [lo |-> 4096, len |-> 512], [lo |-> 16384, len |-> 256] },
         content |-> (4096 :> [matches |-> << 0, 256, 320, 400 >>,
                               starts_dex |-> TRUE])
                     @@ (16384 :> [matches |-> << >>, starts_dex |-> FALSE]) ],
       \* 6: two headerless regions whose guesses are the shortest buffer a
       \*    header can be synthesized in, and one byte less; then a
       \*    headerless region with an intact map and a foreign string-table
       \*    offset
       [ maps |-> Ok(<< [start |-> 4096, size |-> 256, is_read |-> TRUE,
                         filename |-> ""],
                        [start |-> 8192, size |-> 256, is_read |-> TRUE,
                         filename |-> ""],
                        [start |-> 12288, size |-> 256, is_read |-> TRUE,
                         filename |-> ""] >>),
         cells |-> (4096 + 32 :> 7) @@ (4096 + 60 :> 112) @@ (4096 + 52 :> 28)
                   @@ (4096 + 28 :> 1)
                   @@ (8192 + 32 :> 7) @@ (8192 + 60 :> 112) @@ (8192 + 52 :> 27)
                   @@ (8192 + 27 :> 1)
                   @@ (12288 + 32 :> 7) @@ (12288 + 60 :> 111)
                   @@ (12288 + 52 :> 64) @@ (12288 + 64 :> 1),
         spans |-> { [lo |-> 4096, len |-> 256], [lo |-> 8192, len |-> 256],
                     [lo |-> 12288, len |-> 256] },
         content |-> (4096 :> [matches |-> << >>, starts_dex |-> FALSE])
                     @@ (8192 :> [matches |-> << >>, starts_dex |-> FALSE])
                     @@ (12288 :> [matches |-> << >>, starts_dex |-> FALSE]) ],
       \* 7: a region that does not begin with "dex", holds two matches
       \*    further in and an intact map at its start; then a region that
       \*    begins with a match
       [ maps |-> Ok(<< [start |-> 4096, size |-> 512, is_read |-> TRUE,
                         filename |-> ""],
                        [start |-> 8192, size |-> 256, is_read |-> TRUE,
                         filename |-> ""] >>),
         cells |-> (4096 + 32 :> 9) @@ (4096 + 60 :> 112) @@ (4096 + 52 :> 64)
                   @@ (4096 + 64 :> 1)
                   @@ (4224 + 32 :> 9) @@ (4224 + 60 :> 112) @@ (4224 + 52 :> 64)
                   @@ (4224 + 64 :> 1)
                   @@ (4352 + 32 :> 9) @@ (4352 + 60 :> 112) @@ (4352 + 52 :> 64)
                   @@ (4352 + 64 :> 2)
                   @@ (8192 + 32 :> 9) @@ (8192 + 60 :> 112) @@ (8192 + 52 :> 64)
                   @@ (8192 + 64 :> 1),
         spans |-> { [lo |-> 4096, len |-> 512], [lo |-> 8192, len |-> 256] },
         content |-> (4096 :> [matches |-> << 128, 256 >>, starts_dex |-> FALSE])
                     @@ (8192 :> [matches |-> << 0 >>, starts_dex |-> TRUE]) ] >>

Dex == DexScenarios[dex_id]

\* Path::starts_with, component-wise.
PathStartsWith(f, prefix) ==
    \/ f = prefix
    \/ Len(f) > Len(prefix) /\ SubSeq(f, 1, Len(prefix) + 1) = prefix \o "/"

\* DexDumper::should_skip_memory_region.
should_skip_memory_region(filename) ==
    /\ filename # ""
    /\ \/ PathStartsWith(filename, "/data/dalvik-cache")
       \/ PathStartsWith(filename, "/system")

\* filtered_maps of search_dex (dexdumper.rs:214-219).
FilteredMaps(maps) ==
    SelectSeq(maps, LAMBDA m : /\ m.is_read
                               /\ m.size > MIN_MEMORY_SIZE
                               /\ ~should_skip_memory_region(m.filename))

\* DexDumper::read_dex_header_value: `address as u64 + offset` is a plain sum.
read_dex_header_value(sc, address, offset) ==
    LET a == AddU64(address, offset) IN
    IF a.kind = "panic" THEN Panic
    ELSE IF a.v \in DOMAIN sc.cells THEN Ok(sc.cells[a.v])
    ELSE Err

\* u32::checked_mul and u32::checked_add.
CheckedMulU32(a, b) == IF a * b > U32Max THEN Err ELSE Ok(a * b)

CheckedAddU32(a, b) == IF a + b > U32Max THEN Err ELSE Ok(a + b)

\* A variant of RealSize that leaves out the four bytes of the entry count.
RealSizeWithoutCount(map_off, map_size) ==
    IF CheckedMulU32(map_size, 12).kind # "ok" THEN Err
    ELSE CheckedAddU32(map_off, CheckedMulU32(map_size, 12).v)

\* map_off.checked_add(map_size.checked_mul(0xC)?)?.checked_add(4)?
RealSize(map_off, map_size) ==
    LET prod == CheckedMulU32(map_size, 12) IN
    IF prod.kind # "ok" THEN Err
    ELSE LET sum == CheckedAddU32(map_off, prod.v) IN
         IF sum.kind # "ok" THEN Err ELSE CheckedAddU32(sum.v, 4)

\* A variant of HeaderSizeMismatch that accepts every string-table offset.
HeaderSizeMismatchNever(string_ids_off) == FALSE

\* dexdumper.rs:99: string_ids_off != DEX_HEADER_SIZE.
HeaderSizeMismatch(string_ids_off) == string_ids_off # DEX_HEADER_SIZE

\* DexDumper::guess_dex_size: Err stands for None.
guess_dex_size(sc, dex_header_addr) ==
    LET file_size == read_dex_header_value(sc, dex_header_addr, DEX_FILE_SIZE_OFFSET) IN
    IF file_size.kind # "ok" THEN file_size
    ELSE LET string_ids_off ==
                 read_dex_header_value(sc, dex_header_addr, DEX_STRING_IDS_OFFSET) IN
    IF string_ids_off.kind # "ok" THEN string_ids_off
    ELSE IF HeaderSizeMismatch(string_ids_off.v) THEN Err
    ELSE LET map_off == read_dex_header_value(sc, dex_header_addr, DEX_MAP_OFFSET) IN
    IF map_off.kind # "ok" THEN map_off
    ELSE LET map_addr == AddU64(dex_header_addr, map_off.v) IN
    IF map_addr.kind = "panic" THEN Panic
    ELSE LET map_size == read_dex_header_value(sc, map_addr.v, 0) IN
    IF map_size.kind # "ok" THEN map_size
    ELSE LET real_size == RealSize(map_off.v, map_size.v) IN
    IF real_size.kind # "ok" THEN Err
    ELSE Ok([file_size |-> file_size.v, real_size |-> real_size.v])

\* DexDumper::read_memory_proc: whether the span can be read.
read_memory_proc(sc, address, size) ==
    \/ size = 0
    \/ \E sp \in sc.spans : sp.lo <= address /\ address + size <= sp.lo + sp.len

\* DexDumper::fix_dex_header returns a buffer exactly when the endian tag can
\* be read back from it (dexdumper.rs:125-126).
FixReturnsSome(len) == len >= DEX_ENDIAN_TAG_OFFSET + 4

----------------------------------------------------------------------------
(* Header synthesis, on the bytes of the buffer *)

\* dexdumper.rs:13: b"dex\n035\0".
DEX_MAGIC == << 100, 101, 120, 10, 48, 51, 53, 0 >>

\* dexdumper.rs:15.
DEX_HEADER_SIZE_OFFSET == 36

\* write_u32::<LittleEndian>: the four bytes of a u32.
LeU32(x) ==
    << x % 256, (x \div 256) % 256, (x \div 65536) % 256, (x \div 16777216) % 256 >>

\* dexdumper.rs:20-21: 0x12345678 and 0x78563412 as read_u32::<LittleEndian>
\* finds them in a buffer.
DEX_ENDIAN_TAG == << 120, 86, 52, 18 >>

DEX_ENDIAN_TAG_SWAPPED == << 18, 52, 86, 120 >>

\* Write for Cursor<&mut Vec<u8>> at position pos: bytes inside the vector are
\* overwritten, a write past its end grows it, a gap is filled with zeros.
WriteAt(buf, pos, bytes) ==
    [i \in 1 .. (IF pos + Len(bytes) > Len(buf) THEN pos + Len(bytes) ELSE Len(buf)) |->
        IF i > pos /\ i <= pos + Len(bytes) THEN bytes[i - pos]
        ELSE IF i <= Len(buf) THEN buf[i]
        ELSE 0]

\* A variant of ReadAt that reads zeros past the end of the vector.
ReadAtPadded(buf, pos, n) ==
    Ok([i \in 1 .. n |-> IF pos + i <= Len(buf) THEN buf[pos + i] ELSE 0])

\* read_exact of n bytes at position pos: Err when the vector ends before.
ReadAt(buf, pos, n) ==
    IF pos + n > Len(buf) THEN Err ELSE Ok(SubSeq(buf, pos + 1, pos + n))

\* A variant of FixEndianTag that writes the canonical tag in every case.
FixEndianTagAlways(buf, endian_tag) ==
    IF endian_tag.kind # "ok" THEN Err
    ELSE Ok(WriteAt(buf, DEX_ENDIAN_TAG_OFFSET, DEX_ENDIAN_TAG))

\* dexdumper.rs:127-130 on the buffer the three writes have produced.
FixEndianTag(buf, endian_tag) ==
    IF endian_tag.kind # "ok" THEN Err
    ELSE IF endian_tag.v # DEX_ENDIAN_TAG /\ endian_tag.v # DEX_ENDIAN_TAG_SWAPPED
    THEN Ok(WriteAt(buf, DEX_ENDIAN_TAG_OFFSET, DEX_ENDIAN_TAG))
    ELSE Ok(buf)

\* A variant of WriteHeaderFields that puts the magic in front of the buffer
\* instead of over its first bytes.
WriteHeaderFieldsPrepending(dex) ==
    WriteAt(WriteAt(DEX_MAGIC \o dex,
                    DEX_FILE_SIZE_OFFSET, LeU32(Len(dex))),
            DEX_HEADER_SIZE_OFFSET, LeU32(DEX_HEADER_SIZE))

\* dexdumper.rs:117-123: the magic, the length of the input, the header size.
WriteHeaderFields(dex) ==
    WriteAt(WriteAt(WriteAt(dex, 0, DEX_MAGIC),
                    DEX_FILE_SIZE_OFFSET, LeU32(Len(dex))),
            DEX_HEADER_SIZE_OFFSET, LeU32(DEX_HEADER_SIZE))

FixTagOf(buf) == FixEndianTag(buf, ReadAt(buf, DEX_ENDIAN_TAG_OFFSET, 4))

\* DexDumper::fix_dex_header: Err stands for None.
fix_dex_header(dex) == FixTagOf(WriteHeaderFields(dex))

\* The endian tags a headerless region is tried with.
TagCases == {"canonical", "swapped", "other", "zero"}

TagBytes(c) ==
    CASE c = "canonical" -> DEX_ENDIAN_TAG
      [] c = "swapped"   -> DEX_ENDIAN_TAG_SWAPPED
      [] c = "other"     -> << 120, 86, 52, 19 >>
      [] c = "zero"      -> << 0, 0, 0, 0 >>

\* The byte the target holds at address a of the region that starts at
\* start: the endian tag of the case, the bytes of the u32 values the scan
\* reads, and a filler elsewhere.
RegionByte(sc, start, a) ==
    IF a >= start + DEX_ENDIAN_TAG_OFFSET /\ a < start + DEX_ENDIAN_TAG_OFFSET + 4
    THEN TagBytes(tag_case)[a - start - DEX_ENDIAN_TAG_OFFSET + 1]
    ELSE IF \E c \in DOMAIN sc.cells : a >= c /\ a < c + 4
    THEN LeU32(sc.cells[CHOOSE c \in DOMAIN sc.cells : a >= c /\ a < c + 4])
             [a - (CHOOSE c \in DOMAIN sc.cells : a >= c /\ a < c + 4) + 1]
    ELSE (a % 5) + 1

\* What read_memory_proc(start, size) returns for a readable span.
SpanBytes(sc, start, size) ==
    [i \in 1 .. size |-> RegionByte(sc, start, start + i - 1)]

----------------------------------------------------------------------------
(* main's bytecode branch: new, attach_process, search_dex, drop *)

soLocals == << linker_base, target_base, target_size, solist_addr,
               solist_head, current_soinfo, iteration_count, soinfo_reads,
               find_result, search_result, so_size, fix_outcome >>

\* main leaves its scope with r ("ok", "err" or "panic") while dex_dumper is
\* alive: the value is dropped before main is left.
LeaveWith(r) ==
    /\ result' = r
    /\ pc' = "dex_drop"

\* main.rs:78-79 with DexDumper::new: /proc/<pid>/mem is opened.
DexNew ==
    /\ pc = "dex_new"
    /\ \E opened \in BOOLEAN :
        IF opened
        THEN /\ dex_alive' = TRUE
             /\ pc' = "dex_attach"
             /\ run_result' = run_result
        ELSE /\ dex_alive' = dex_alive
             /\ Finish("err")
    /\ UNCHANGED << inputs, soLocals, dex_maps, region_idx, match_idx, result,
                    files, log >>

\* A variant of attach_process that reads the region table first and stops
\* the target afterwards.
DexAttachEnumFirst ==
    /\ pc = "dex_attach"
    /\ \E delivered \in BOOLEAN :
        IF Dex.maps.kind # "ok"
        THEN /\ log' = log
             /\ LeaveWith("err")
             /\ UNCHANGED dex_maps
        ELSE IF delivered
        THEN /\ log' = LoggedAll(log, << "enum", "stop_ok" >>)
             /\ dex_maps' = Dex.maps.v
             /\ pc' = "dex_search"
             /\ UNCHANGED result
        ELSE /\ log' = LoggedAll(log, << "enum", "stop_fail" >>)
             /\ LeaveWith("err")
             /\ UNCHANGED dex_maps
    /\ UNCHANGED << inputs, soLocals, dex_alive, region_idx, match_idx, files,
                    run_result >>

\* main.rs:81-83 with DexDumper::attach_process.
DexAttach ==
    /\ pc = "dex_attach"
    /\ \E delivered \in BOOLEAN :
        IF ~delivered
        THEN /\ log' = Logged(log, "stop_fail")
             /\ LeaveWith("err")
             /\ UNCHANGED dex_maps
        ELSE IF Dex.maps.kind = "ok"
        THEN /\ log' = LoggedAll(log, << "stop_ok", "enum" >>)
             /\ dex_maps' = Dex.maps.v
             /\ pc' = "dex_search"
             /\ UNCHANGED result
        ELSE /\ log' = Logged(log, "stop_ok")
             /\ LeaveWith("err")
             /\ UNCHANGED dex_maps
    /\ UNCHANGED << inputs, soLocals, dex_alive, region_idx, match_idx, files,
                    run_result >>

\* main.rs:85-87 with search_dex up to its loop (dexdumper.rs:209-224).
DexSearch ==
    /\ pc = "dex_search"
    /\ \E dir_created \in BOOLEAN :
        IF dir_created
        THEN /\ region_idx' = 1
             /\ pc' = "dex_region"
             /\ UNCHANGED result
        ELSE /\ LeaveWith("err")
             /\ UNCHANGED region_idx
    /\ UNCHANGED << inputs, soLocals, dex_alive, dex_maps, match_idx, files,
                    log, run_result >>

Regions == FilteredMaps(dex_maps)

\* process_memory_region returns (with Ok or Err alike, dexdumper.rs:227-233):
\* the loop of search_dex goes on to the next region.
NextRegion ==
    /\ region_idx' = region_idx + 1
    /\ match_idx' = 0
    /\ pc' = "dex_region"
    /\ UNCHANGED result

\* The head of the loop of search_dex and the read of the whole region
\* (dexdumper.rs:226-227, 173); after the last region search_dex returns Ok
\* (236-237) and main prints and returns (main.rs:89, 103).
DexRegion ==
    /\ pc = "dex_region"
    /\ IF region_idx > Len(Regions)
       THEN /\ LeaveWith("ok")
            /\ UNCHANGED << region_idx, match_idx, log >>
       ELSE LET m == Regions[region_idx] IN
            /\ log' = Logged(log, "read")
            /\ IF read_memory_proc(Dex, m.start, m.size)
               THEN /\ match_idx' = 1
                    /\ pc' = "dex_match"
                    /\ UNCHANGED << region_idx, result >>
               ELSE NextRegion
    /\ UNCHANGED << inputs, soLocals, dex_alive, dex_maps, files, run_result >>

\* The unit of work shared by process_dex_found (dexdumper.rs:144-165) and
\* the headerless recovery (180-203) at address addr: "panic", "none" (no
\* size, or a span that cannot be read: nothing is written), "short"
\* (headerless only: no header can be synthesized) or "file".  The message
\* printed for an unreadable span computes addr + size (161, 200).
UnitOutcome(sc, addr, headerless) ==
    LET g == guess_dex_size(sc, addr) IN
    IF g.kind = "panic" THEN "panic"
    ELSE IF g.kind # "ok" THEN "none"
    ELSE IF ~read_memory_proc(sc, addr, g.v.real_size)
         THEN (IF AddU64(addr, g.v.real_size).kind = "panic" THEN "panic"
               ELSE "none")
    ELSE IF headerless /\ ~FixReturnsSome(g.v.real_size) THEN "short"
    ELSE "file"

\* One signature match: process_dex_found(real_addr) of dexdumper.rs:174-177.
DexMatch ==
    /\ pc = "dex_match"
    /\ LET m == Regions[region_idx]
           matches == Dex.content[m.start].matches
       IN
       IF match_idx > Len(matches)
       THEN /\ pc' = "dex_nohdr"
            /\ UNCHANGED << region_idx, match_idx, result, files, log >>
       ELSE LET real_addr == AddU64(m.start, matches[match_idx])
                out == IF real_addr.kind = "panic" THEN "panic"
                       ELSE UnitOutcome(Dex, real_addr.v, FALSE)
            IN
            CASE out = "panic" ->
                   /\ LeaveWith("panic")
                   /\ log' = Logged(log, "read")
                   /\ UNCHANGED << region_idx, match_idx, files >>
              [] out = "none" ->
                   /\ match_idx' = match_idx + 1
                   /\ log' = Logged(log, "read")
                   /\ UNCHANGED << region_idx, pc, result, files >>
              [] out = "file" ->
                   \E created \in BOOLEAN, written \in BOOLEAN :
                   /\ log' = LoggedAll(log, << "read", "write" >>)
                   /\ IF created /\ written
                      THEN /\ files' = files \cup
                                { [kind |-> "dex", addr |-> real_addr.v,
                                   size |-> guess_dex_size(Dex, real_addr.v).v.real_size] }
                           /\ match_idx' = match_idx + 1
                           /\ UNCHANGED << region_idx, pc, result >>
                      ELSE /\ NextRegion
                           /\ UNCHANGED files
    /\ UNCHANGED << inputs, soLocals, dex_alive, dex_maps, run_result >>

\* A variant of HeaderlessApplies that leaves out the test of the first
\* three bytes.
HeaderlessAppliesAlways(len, starts_dex) == len >= 3

\* dexdumper.rs:179: mem.len() >= 3 && &mem[0..3] != b"dex".
HeaderlessApplies(len, starts_dex) == len >= 3 /\ ~starts_dex

\* The headerless recovery of dexdumper.rs:179-204, then the region is done.
DexNoHeader ==
    /\ pc = "dex_nohdr"
    /\ LET m == Regions[region_idx]
           out == IF HeaderlessApplies(m.size, Dex.content[m.start].starts_dex)
                  THEN UnitOutcome(Dex, m.start, TRUE)
                  ELSE "skip"
       IN
       CASE out = "panic" ->
              /\ LeaveWith("panic")
              /\ log' = Logged(log, "read")
              /\ UNCHANGED << region_idx, match_idx, files >>
         [] out = "skip" ->
              NextRegion /\ UNCHANGED << files, log >>
         [] out \in {"none", "short"} ->
              /\ NextRegion
              /\ log' = Logged(log, "read")
              /\ UNCHANGED files
         [] out = "file" ->
              \E created \in BOOLEAN, written \in BOOLEAN :
              /\ log' = LoggedAll(log, << "read", "write" >>)
              /\ NextRegion
              /\ files' = IF created /\ written
                          THEN files \cup
                               { [kind |-> "dex_fixed", addr |-> m.start,
                                  size |-> guess_dex_size(Dex, m.start).v.real_size,
                                  data |-> fix_dex_header(
                                      SpanBytes(Dex, m.start,
                                          guess_dex_size(Dex, m.start).v.real_size)).v] }
                          ELSE files
    /\ UNCHANGED << inputs, soLocals, dex_alive, dex_maps, run_result >>

\* impl Drop for DexDumper (dexdumper.rs:256-260): SIGCONT is sent and its
\* result ignored; then main is left with the value it was returning.
DexDrop ==
    /\ pc = "dex_drop"
    /\ \E delivered \in BOOLEAN :
        log' = Logged(log, IF delivered THEN "cont_ok" ELSE "cont_fail")
    /\ dex_alive' = FALSE
    /\ Finish(result)
    /\ UNCHANGED << inputs, soLocals, dex_maps, region_idx, match_idx, result,
                    files >>

----------------------------------------------------------------------------
(* The specification *)

Init ==
    /\ mode \in {"so", "dex"}
    /\ overflow_checks \in BOOLEAN
    /\ pc = "main"
    /\ IF mode = "so"
       THEN /\ maps_text \in { MapsTables[i] : i \in 1 .. Len(MapsTables) }
            /\ mem_id \in 1 .. Len(Memories)
            /\ solist_offset \in SolistOffsets
            /\ dex_id = 1
            /\ tag_case = "other"
       ELSE /\ maps_text = << >>
            /\ mem_id = 1
            /\ solist_offset = 0
            /\ dex_id \in 1 .. Len(DexScenarios)
            /\ tag_case \in TagCases
    /\ linker_base = 0
    /\ target_base = 0
    /\ target_size = 0
    /\ solist_addr = 0
    /\ solist_head = 0
    /\ current_soinfo = 0
    /\ iteration_count = 0
    /\ soinfo_reads = 0
    /\ find_result = [kind |-> "none", v |-> 0]
    /\ search_result = [kind |-> "none", v |-> 0]
    /\ so_size = 0
    /\ result = "none"
    /\ fix_outcome = "none"
    /\ dex_alive = FALSE
    /\ dex_maps = << >>
    /\ region_idx = 0
    /\ match_idx = 0
    /\ files = {}
    /\ log = << >>
    /\ run_result = "none"

Next ==
    \/ Main
    \/ SoPrepare
    \/ SoStop
    \/ SoLinker
    \/ SoTarget
    \/ SoHead
    \/ SoFindStep
    \/ SoResolve
    \/ SoDump
    \/ SoCont
    \/ DexNew
    \/ DexAttach
    \/ DexSearch
    \/ DexRegion
    \/ DexMatch
    \/ DexNoHeader
    \/ DexDrop

Spec == Init /\ [][Next]_vars

----------------------------------------------------------------------------
(* What a run did, read off its log *)

HasEvent(e) == \E i \in DOMAIN log : log[i] = e

\* kill(SIGSTOP) returned Ok (sodumper.rs:58, dexdumper.rs:77).
Paused == HasEvent("stop_ok")

IsResume(e) == e \in {"cont_ok", "cont_fail"}

\* How many times kill(SIGCONT) was called (sodumper.rs:64, dexdumper.rs:86).
ResumeAttempts == Cardinality({ i \in DOMAIN log : IsResume(log[i]) })

\* main has returned or unwound.
Ended == pc = "done"

----------------------------------------------------------------------------
(* Pause and resume *)

\* C1: when the stop signal was delivered and the run ends with an error, the
\* continue signal has been sent by the time the error reaches the caller.
C1_ResumeBeforeError ==
    (Ended /\ IsError(run_result) /\ Paused) => ResumeAttempts >= 1

\* A native-library run that was paused, failed at a read of target memory
\* and was resumed before it returned the error.
C1_Witness ==
    /\ Ended /\ mode = "so" /\ run_result = "err" /\ result = "err"
    /\ Paused /\ HasEvent("read") /\ log[Len(log)] = "cont_ok"

\* C2: after a successful pause the resume signal is sent even when the
\* extraction panics, in SoDumper::dump as in DexDumper.
C2_ResumeOnPanic ==
    (Ended /\ run_result = "panic" /\ Paused) => ResumeAttempts >= 1

\* C3: a run in which the pause succeeded makes exactly one resume attempt.
C3_ExactlyOneResume ==
    (Ended /\ Paused) => ResumeAttempts = 1

\* C4: when the artifact was written and the resume signal then fails, the run
\* still reports success.
C4_ResumeFailureNotMasking ==
    (Ended /\ result = "ok" /\ files # {} /\ HasEvent("cont_fail"))
        => run_result = "ok"

\* C5: when the stop signal cannot be delivered the run ends with an error:
\* the region table is not read, target memory is not read, nothing is written.
C5_StopFailureIsFatal ==
    HasEvent("stop_fail") =>
        /\ ~HasEvent("enum") /\ ~HasEvent("read") /\ ~HasEvent("write")
        /\ files = {}
        /\ pc \in {"dex_drop", "done"}
        /\ Ended => run_result = "err"

C5_Witness == Ended /\ HasEvent("stop_fail") /\ run_result = "err"

\* C6: every read of the region table and of target memory comes after the
\* successful pause and before the resume signal; every write of an output
\* comes before the resume signal.
C6_Sequential ==
    \A i \in DOMAIN log :
        /\ log[i] \in {"enum", "read"} => \E j \in 1 .. (i - 1) : log[j] = "stop_ok"
        /\ log[i] \in {"enum", "read", "write"} =>
               \A j \in 1 .. (i - 1) : ~IsResume(log[j])

\* A run that paused, enumerated, read, wrote and resumed, in this order.
C6_Witness ==
    /\ Ended /\ files # {}
    /\ log = << "stop_ok", "enum", "read", "write", "cont_ok" >>

----------------------------------------------------------------------------
(* The size of the native library *)

\* The size dump_so is called with has been computed.
SizeResolved == mode = "so" /\ pc = "so_dump"

\* C7: the size the dump uses is at most ten times the raw size of the mapped
\* region, and a size read from the registry that is larger is replaced by
\* the raw size.  Ten times the raw size is the product over the integers.
C7_SizeWithinTenTimesRaw ==
    SizeResolved =>
        /\ so_size <= 10 * target_size
        /\ (find_result.kind = "ok" /\ find_result.v > 10 * target_size)
               => so_size = target_size
        /\ (find_result.kind # "ok" /\ search_result.kind = "ok"
               /\ search_result.v > 10 * target_size)
               => so_size = target_size

\* The traversal found a size above ten times the raw size: the raw size is
\* what the dump uses.
C7_Witness ==
    /\ SizeResolved
    /\ find_result.kind = "ok" /\ find_result.v > 10 * target_size
    /\ so_size = target_size /\ target_size > 0

\* C8: the traversal reads at most MAX_ITERATIONS records and comes to an end,
\* whatever the registry holds: every step that does not end it reads one
\* record and adds one to a counter that never passes MAX_ITERATIONS.
C8_TraversalBounded ==
    /\ [](soinfo_reads <= MAX_ITERATIONS /\ iteration_count <= MAX_ITERATIONS)
    /\ [][(pc = "so_find" /\ pc' = "so_find") =>
             /\ iteration_count' = iteration_count + 1
             /\ soinfo_reads' = soinfo_reads + 1]_vars

\* A cyclic list without the target: the traversal ended at the cap.
C8_Witness ==
    /\ pc = "so_resolve" /\ find_result.kind = "err"
    /\ soinfo_reads = MAX_ITERATIONS /\ current_soinfo # 0

\* C9: once the registry head has been read, resolving the size does not end
\* the run: a failed traversal is followed by the pattern search, a failed
\* pattern search by the raw size.
C9_ResolutionNeverAborts ==
    /\ (mode = "so" /\ find_result.kind # "none" /\ pc # "so_resolve")
           => (pc \in {"so_dump", "so_cont", "done"} /\ run_result # "panic")
    /\ (SizeResolved /\ find_result.kind = "err")
           => search_result.kind # "none"
    /\ (SizeResolved /\ find_result.kind = "err" /\ search_result.kind = "err")
           => so_size = target_size

\* The address of the k-th record of the list that starts at head.
RECURSIVE RecordAddr(_, _, _)
RecordAddr(mem, head, k) ==
    IF k = 1 THEN head
    ELSE IF parse_soinfo(mem, RecordAddr(mem, head, k - 1)).kind = "ok"
         THEN parse_soinfo(mem, RecordAddr(mem, head, k - 1)).v.next
         ELSE 0

KthRecord(k) == parse_soinfo(Mem, RecordAddr(Mem, solist_head, k))

\* The records the registry segment of the image holds.
RecordCount == Len(Mem[2].data) \div SOINFO_READ

\* The target is the k-th record of the list, and no record before it.
TargetIsKth(k) ==
    /\ k <= MAX_ITERATIONS
    /\ solist_head # 0
    /\ \A j \in 1 .. (k - 1) :
          /\ KthRecord(j).kind = "ok"
          /\ KthRecord(j).v.base # target_base
          /\ KthRecord(j).v.next # 0
    /\ KthRecord(k).kind = "ok"
    /\ KthRecord(k).v.base = target_base

\* find_target_soinfo has returned.
TraversalDone ==
    mode = "so" /\ find_result.kind # "none"
    /\ pc \in {"so_resolve", "so_dump", "so_cont", "done"}

\* C10: when the target is the k-th record of the list and no earlier one, the
\* traversal returns that record's size after reading exactly k records, and
\* the pattern search is not run.
C10_FoundAtKth ==
    TraversalDone =>
        \A k \in 1 .. RecordCount :
            TargetIsKth(k) =>
                /\ find_result = Ok(KthRecord(k).v.size)
                /\ soinfo_reads = k
                /\ search_result.kind = "none"

\* The target is the third of five records and the size has been resolved.
C10_Witness ==
    /\ SizeResolved /\ RecordCount = 5 /\ TargetIsKth(3)
    /\ soinfo_reads = 3 /\ so_size = KthRecord(3).v.size

----------------------------------------------------------------------------
(* The pattern fallback *)

\* What search_soinfo_chain reads: CHAIN_WINDOW bytes from the registry head.
Window == read_process_memory(Mem, solist_head, CHAIN_WINDOW)

\* The offsets (0-based) of the window at which the bytes of the target base
\* stand.
Occurrences ==
    { i \in 0 .. (CHAIN_WINDOW - PtrBytes) :
        SubSeq(Window.v, i + 1, i + PtrBytes) = ToLeBytes(target_base) }

FirstOccurrence == CHOOSE i \in Occurrences : \A j \in Occurrences : i <= j

\* The word after the first occurrence lies inside the window.
FollowerInWindow == FirstOccurrence + PtrBytes + PtrBytes <= CHAIN_WINDOW

\* The word that follows the first occurrence.
Follower ==
    ReadU64LE(SubSeq(Window.v, FirstOccurrence + PtrBytes + 1,
                     FirstOccurrence + PtrBytes + PtrBytes))

\* The traversal failed, search_soinfo_chain has returned, and the target
\* base occurs in the window it read.
FallbackOnPattern ==
    /\ mode = "so" /\ find_result.kind = "err" /\ search_result.kind # "none"
    /\ Window.kind = "ok"
    /\ Occurrences # {}

\* C11 as stated: whenever the traversal fails and the target base occurs in
\* the window, the fallback returns the word that follows its first
\* occurrence.
C11_FollowerOfFirstOccurrence ==
    FallbackOnPattern =>
        /\ search_result.kind = "ok"
        /\ FollowerInWindow
        /\ search_result.v = Follower

\* C11, amended: the fallback returns the word that follows the first
\* occurrence when that word lies inside the window; when the first
\* occurrence stands so close to the end of the window that it does not, the
\* fallback fails and the raw size is used.
C11_FollowerWhenInWindow ==
    FallbackOnPattern =>
        IF FollowerInWindow
        THEN search_result = Ok(Follower)
        ELSE /\ search_result = Err
             /\ SizeResolved => so_size = target_size

\* The base occurs twice in the window, first in a field that is no base
\* field: the word after that first occurrence is what the fallback returned.
C11_Witness ==
    /\ FallbackOnPattern /\ SizeResolved
    /\ Cardinality(Occurrences) = 2
    /\ search_result = Ok(Follower)

----------------------------------------------------------------------------
(* The 32-bit threshold *)

\* get_target_mapping found the target's first mapping at or below the
\* threshold and the closure returned its error.
TargetRejected == mode = "so" /\ result = "unsupported"

\* C12: when the target's load base is below the split threshold, the run
\* fails with the unsupported-architecture error, no target memory is read,
\* and the target is resumed.
C12_RejectedBeforeReads ==
    TargetRejected =>
        /\ ~HasEvent("read")
        /\ files = {}
        /\ Ended => (run_result = "unsupported" /\ ResumeAttempts = 1)

----------------------------------------------------------------------------
(* The region table *)

\* The lines of a table that have six or more fields, all of them parsing.
WellFormedLines(lines) ==
    SelectSeq(lines, LAMBDA l : ParseMapsLine(l).kind = "ok")

\* Their records, in the order of the table.
WellFormedRecords(lines) ==
    [k \in 1 .. Len(WellFormedLines(lines)) |->
        ParseMapsLine(WellFormedLines(lines)[k]).v]

\* The run has read the region table.
TableRead == mode = "so" /\ HasEvent("enum")

\* C13: the enumeration never aborts because of one bad line: a line without
\* the six-field shape or with a field that fails to parse is skipped, and
\* every well-formed line is returned, in the order of the table.
C13_BadLinesSkipped ==
    TableRead =>
        /\ parse_proc_maps(maps_text).kind = "ok"
        /\ parse_proc_maps(maps_text).v = WellFormedRecords(maps_text)

----------------------------------------------------------------------------
(* The bytecode scan: what a signature match yields *)

\* The u32 the target holds at address a, -1 where none can be read.
CellAt(a) == IF a \in DOMAIN Dex.cells THEN Dex.cells[a] ELSE -1

\* The addresses at which the signature matches in a region that was read.
MatchAddrsOf(m) ==
    IF m.start \in DOMAIN Dex.content
    THEN { m.start + Dex.content[m.start].matches[k] :
             k \in 1 .. Len(Dex.content[m.start].matches) }
    ELSE {}

MatchAddrs == UNION { MatchAddrsOf(Regions[r]) : r \in 1 .. Len(Regions) }

\* The string-table offset stored at a header address is the header size.
ConsistentHeader(a) == CellAt(a + DEX_STRING_IDS_OFFSET) = DEX_HEADER_SIZE

\* map_offset + entry_count * 12 + 4 over the integers, for a header at a
\* whose map offset and entry count can be read; -1 otherwise.
MapSum(a) ==
    IF CellAt(a + DEX_MAP_OFFSET) < 0 THEN -1
    ELSE IF CellAt(a + CellAt(a + DEX_MAP_OFFSET)) < 0 THEN -1
    ELSE CellAt(a + DEX_MAP_OFFSET)
           + CellAt(a + CellAt(a + DEX_MAP_OFFSET)) * 12 + 4

\* What a header at a needs for a size to be recovered and its span read:
\* the file-size field, the map offset and the entry count can be read at
\* addresses that do not pass the word, the sum fits a u32, and the span of
\* that many bytes can be read.
Recoverable(a) ==
    /\ CellAt(a + DEX_FILE_SIZE_OFFSET) >= 0
    /\ ConsistentHeader(a)
    /\ MapSum(a) >= 0
    /\ a + DEX_STRING_IDS_OFFSET <= U64Max
    /\ a + CellAt(a + DEX_MAP_OFFSET) <= U64Max
    /\ MapSum(a) <= U32Max
    /\ read_memory_proc(Dex, a, MapSum(a))

\* The output file of the match at a, holding MapSum(a) bytes from a on.
MatchFile(a) == [kind |-> "dex", addr |-> a, size |-> MapSum(a)]

\* search_dex has returned.
ScanDone == mode = "dex" /\ pc \in {"dex_drop", "done"} /\ result = "ok"

\* C14 as stated: every signature match with a consistent string-table
\* offset has its output file, of map_offset + entry_count * 12 + 4 bytes.
C14_EveryConsistentMatchWritten ==
    ScanDone =>
        \A a \in MatchAddrs : ConsistentHeader(a) => MatchFile(a) \in files

\* The match process_memory_region is at.
AtMatch ==
    /\ mode = "dex" /\ pc = "dex_match"
    /\ match_idx <= Len(Dex.content[Regions[region_idx].start].matches)

CurMatchAddr ==
    Regions[region_idx].start
        + Dex.content[Regions[region_idx].start].matches[match_idx]

\* C14, amended: every file written for a match stands for a match with a
\* consistent string-table offset and holds exactly map_offset +
\* entry_count * 12 + 4 bytes from the match address on, whatever the
\* file-size field holds; and when the loop over the matches goes on past a
\* match, that match's file has been written if its size can be recovered
\* and its span read, and nothing has been written for it otherwise.
C14_MatchFileHasMapSize ==
    /\ [](\A f \in files : f.kind = "dex" =>
             /\ f.addr \in MatchAddrs
             /\ Recoverable(f.addr)
             /\ f = MatchFile(f.addr))
    /\ [][(AtMatch /\ pc' = "dex_match" /\ match_idx' = match_idx + 1) =>
             IF Recoverable(CurMatchAddr)
             THEN files' = files \cup { MatchFile(CurMatchAddr) }
             ELSE files' = files]_vars

\* A match was written whose file-size field differs from the recovered size.
C14_Witness ==
    /\ ScanDone
    /\ \E f \in files :
          /\ f.kind = "dex" /\ f = MatchFile(f.addr)
          /\ CellAt(f.addr + DEX_FILE_SIZE_OFFSET) # f.size


----------------------------------------------------------------------------
(* Header synthesis *)

\* The files the headerless recovery has written, each with the buffer
\* fix_dex_header was given (the span read at the region start).
FixedFiles == { f \in files : f.kind = "dex_fixed" }

FixInput(f) == SpanBytes(Dex, f.addr, f.size)

InField(i, off, n) == i > off /\ i <= off + n

TagOf(buf) == SubSeq(buf, DEX_ENDIAN_TAG_OFFSET + 1, DEX_ENDIAN_TAG_OFFSET + 4)

TagKept(buf) == TagOf(buf) = DEX_ENDIAN_TAG \/ TagOf(buf) = DEX_ENDIAN_TAG_SWAPPED

\* What the claim allows byte i (counted from 1) of the output to be.
ExpectedByte(inp, i) ==
    IF InField(i, 0, 8) THEN DEX_MAGIC[i]
    ELSE IF InField(i, DEX_FILE_SIZE_OFFSET, 4)
    THEN LeU32(Len(inp))[i - DEX_FILE_SIZE_OFFSET]
    ELSE IF InField(i, DEX_HEADER_SIZE_OFFSET, 4)
    THEN LeU32(DEX_HEADER_SIZE)[i - DEX_HEADER_SIZE_OFFSET]
    ELSE IF InField(i, DEX_ENDIAN_TAG_OFFSET, 4) /\ ~TagKept(inp)
    THEN DEX_ENDIAN_TAG[i - DEX_ENDIAN_TAG_OFFSET]
    ELSE inp[i]

\* C15: header synthesis changes the magic (bytes 0..8), the file-size field
\* (0x20, set to the length of the input), the header-size field (0x24, set
\* to 0x70) and the endian tag (0x28), and no other byte; the tag is rewritten
\* to the canonical value exactly when the input holds neither the canonical
\* nor the byte-swapped value.
C15_OnlyHeaderFieldsChange ==
    \A f \in FixedFiles :
        /\ Len(f.data) = Len(FixInput(f))
        /\ \A i \in 1 .. Len(f.data) : f.data[i] = ExpectedByte(FixInput(f), i)
        /\ (TagOf(f.data) # TagOf(FixInput(f))) <=> ~TagKept(FixInput(f))

\* A byte-swapped tag went through header synthesis, in a buffer with bytes
\* behind the header fields.
C15_Witness ==
    \E f \in FixedFiles :
        /\ TagOf(FixInput(f)) = DEX_ENDIAN_TAG_SWAPPED
        /\ Len(f.data) > DEX_ENDIAN_TAG_OFFSET + 4

\* C16: header synthesis is idempotent: applied to its own output it
\* succeeds and returns that output.
C16_Idempotent ==
    \A f \in FixedFiles :
        /\ fix_dex_header(f.data).kind = "ok"
        /\ fix_dex_header(f.data).v = f.data

\* An input with a tag that is rewritten and with header fields that all
\* differ from what is written went through header synthesis.
C16_Witness ==
    \E f \in FixedFiles :
        /\ ~TagKept(FixInput(f))
        /\ f.data # FixInput(f)

----------------------------------------------------------------------------
(* The recovery of a region without a header *)

\* The candidate regions that were read, do not begin with "dex", and whose
\* size guess at the region start succeeds with a span that can be read.
HeaderlessCandidates ==
    { Regions[r].start : r \in { k \in 1 .. Len(Regions) :
          /\ read_memory_proc(Dex, Regions[k].start, Regions[k].size)
          /\ Regions[k].size >= 3
          /\ ~Dex.content[Regions[k].start].starts_dex
          /\ Recoverable(Regions[k].start) } }

\* The regions that were read and begin with "dex".
DexStartRegions ==
    { Regions[r].start : r \in { k \in 1 .. Len(Regions) :
          /\ Regions[k].start \in DOMAIN Dex.content
          /\ Dex.content[Regions[k].start].starts_dex } }

\* The file named by region start a holds the MapSum(a) bytes read there
\* under a synthesized header: the magic, the read length as file size, and
\* every byte behind the tag as read.
IsSynthesizedFile(f, a) ==
    /\ f.addr = a
    /\ f.size = MapSum(a)
    /\ Len(f.data) = MapSum(a)
    /\ SubSeq(f.data, 1, 8) = DEX_MAGIC
    /\ SubSeq(f.data, DEX_FILE_SIZE_OFFSET + 1, DEX_FILE_SIZE_OFFSET + 4)
           = LeU32(MapSum(a))
    /\ TagKept(f.data)
    /\ \A i \in DEX_ENDIAN_TAG_OFFSET + 5 .. MapSum(a) :
           f.data[i] = RegionByte(Dex, a, a + i - 1)

\* C17: when the scan has returned, every candidate region that does not
\* begin with "dex" and whose size guess at its start succeeds with a
\* readable span has its file with a synthesized header, whatever matches the
\* region holds; and no such file exists for a region that begins with "dex".
C17_HeaderlessAlwaysWritten ==
    /\ ScanDone =>
          \A a \in HeaderlessCandidates :
              \E f \in FixedFiles : IsSynthesizedFile(f, a)
    /\ \A f \in FixedFiles : f.addr \notin DexStartRegions

----------------------------------------------------------------------------
(* Containment of failures in the bytecode scan *)

\* The step at a match whose size is recovered and whose span is read, and
\* that leaves no file: File::create or write_all has failed.
MatchWriteFails ==
    /\ AtMatch
    /\ Recoverable(CurMatchAddr)
    /\ files' = files
    /\ pc' # "dex_drop"

\* C19: a failed create or write of the output file of one match is
\* contained to that match: the scan stays in the same region and goes on to
\* its next match (and from the last match to the headerless recovery).
C19_WriteFailureContained ==
    [][MatchWriteFails =>
          /\ region_idx' = region_idx
          /\ pc' = "dex_match"
          /\ match_idx' = match_idx + 1]_vars

\* search_dex has created the output directory and entered its loop.
ScanStarted == mode = "dex" /\ region_idx >= 1

\* C18: once the output directory exists the scan completes normally: when
\* the run has left search_dex, every candidate region has been visited and
\* the result is Ok, whatever happened inside a region and also when no
\* artifact was recovered.
C18_ScanCompletes ==
    /\ (ScanStarted /\ pc \in {"dex_drop", "done"}) =>
          /\ result = "ok"
          /\ region_idx = Len(Regions) + 1
    /\ (ScanStarted /\ pc \in {"dex_region", "dex_match", "dex_nohdr"}) =>
          region_idx <= Len(Regions) + 1

----------------------------------------------------------------------------
(* The repair step *)

\* dump_so has created and written the raw dump file.
RawDumpWritten ==
    mode = "so" /\ \E f \in files : f.kind = "so" /\ f.addr = target_base

\* C20: once the raw dump file is written it is kept, dump_so returns Ok and
\* the run is reported as successful, whether the repair step succeeded,
\* exited non-zero or could not be started.
C20_DumpKeptRunSucceeds ==
    RawDumpWritten =>
        /\ fix_outcome \in FixOutcomes
        /\ result = "ok"
        /\ Ended => run_result = "ok"

----------------------------------------------------------------------------
(* Arithmetic of the size recovery *)

\* An address computed by the size recovery at header address a passes the
\* word: a field address (a + field offset, dexdumper.rs:91) or the address
\* of the entry count (a + map_off, dexdumper.rs:104).
AddressOverflows(a) ==
    \/ a + DEX_FILE_SIZE_OFFSET > U64Max
    \/ a + DEX_STRING_IDS_OFFSET > U64Max
    \/ a + DEX_MAP_OFFSET > U64Max
    \/ /\ ConsistentHeader(a)
       /\ CellAt(a + DEX_MAP_OFFSET) >= 0
       /\ a + CellAt(a + DEX_MAP_OFFSET) > U64Max

\* C21: when an address computation of the size recovery would overflow, no
\* size is produced for that match, nothing is written for it, and the scan
\* continues with the next match of the region.
C21_OverflowSkipsMatch ==
    [][(AtMatch /\ AddressOverflows(CurMatchAddr)) =>
          /\ guess_dex_size(Dex, CurMatchAddr).kind = "err"
          /\ files' = files
          /\ pc' = "dex_match"
          /\ match_idx' = match_idx + 1
          /\ region_idx' = region_idx]_vars

----------------------------------------------------------------------------
(* A string-table offset that is not the header size *)

\* The string-table-offset field at a can be read and is not 0x70.
ForeignHeader(a) ==
    /\ CellAt(a + DEX_STRING_IDS_OFFSET) >= 0
    /\ ~ConsistentHeader(a)

\* The headerless recovery is about to run for a region that was read and
\* does not begin with "dex".
AtHeaderless ==
    /\ mode = "dex" /\ pc = "dex_nohdr"
    /\ Regions[region_idx].size >= 3
    /\ ~Dex.content[Regions[region_idx].start].starts_dex

\* C22: for a match, or a region start without a header, whose string-table
\* offset is not 0x70, no size is produced (so no span is read), no file is
\* written for that address, and the scan proceeds: to the next match, or
\* from the region start to the next region.
C22_ForeignOffsetAbandoned ==
    /\ [](mode = "dex" => \A f \in files : ~ForeignHeader(f.addr))
    /\ [][(AtMatch /\ ForeignHeader(CurMatchAddr)) =>
             /\ guess_dex_size(Dex, CurMatchAddr).kind = "err"
             /\ files' = files
             /\ pc' = "dex_match"
             /\ match_idx' = match_idx + 1
             /\ region_idx' = region_idx]_vars
    /\ [][(AtHeaderless /\ ForeignHeader(Regions[region_idx].start)) =>
             /\ guess_dex_size(Dex, Regions[region_idx].start).kind = "err"
             /\ files' = files
             /\ pc' = "dex_region"
             /\ region_idx' = region_idx + 1]_vars

\* The scan has gone past a match with a foreign string-table offset whose
\* map is intact, and has returned.
C22_Witness ==
    /\ ScanDone
    /\ \E a \in MatchAddrs :
          /\ ForeignHeader(a)
          /\ MapSum(a) >= 0
          /\ read_memory_proc(Dex, a, MapSum(a))

----------------------------------------------------------------------------
(* The bounds of the target library *)

\* The mappings of the table whose path contains the target name, in the
\* order of the table (the table parses).
TargetMappings ==
    SelectSeq(parse_proc_maps(maps_text).v,
              LAMBDA m : Contains(m.pathname, TargetName))

LowestStartOf(hits) ==
    CHOOSE x \in { hits[k].start : k \in DOMAIN hits } :
        \A k \in DOMAIN hits : x <= hits[k].start

HighestEndOf(hits) ==
    CHOOSE x \in { hits[k].end : k \in DOMAIN hits } :
        \A k \in DOMAIN hits : x >= hits[k].end

\* get_target_mapping has just returned Ok and dump holds the base and the
\* size (end - base) it derived.
TargetResolved == mode = "so" /\ pc = "so_head"

AscendingTable(hits) ==
    /\ \A k \in DOMAIN hits : hits[k].start < hits[k].end
    /\ \A k \in 1 .. Len(hits) - 1 : hits[k].end <= hits[k + 1].start

----------------------------------------------------------------------------
(* Resume without pause *)

\* C24: kill(SIGCONT) is called only in runs in which kill(SIGSTOP) had
\* returned Ok before: a run whose pause failed or that never attempted a
\* pause sends no continue signal.
C24_ResumeOnlyAfterPause ==
    \A i \in DOMAIN log :
        IsResume(log[i]) => \E j \in 1 .. i - 1 : log[j] = "stop_ok"

----------------------------------------------------------------------------
(* Output paths *)

\* The output path of an artifact of the scan is formed from its address
\* alone (dexdumper.rs:151, 189).
SamePath(f, g) == f.addr = g.addr

\* C25: within one scan no two artifacts are written to the same path: every
\* write goes to a path no earlier artifact has, so the files are named by
\* pairwise distinct addresses, and the artifact of a region start is never
\* that of a signature match.
C25_DistinctPaths ==
    /\ [](mode = "dex" =>
            /\ \A f \in files : \A g \in files : SamePath(f, g) => f = g
            /\ \A f \in FixedFiles : f.addr \notin MatchAddrs)
    /\ [][(mode = "dex" /\ files' # files) =>
            \E f \in files' \ files :
                /\ files' = files \cup {f}
                /\ \A g \in files : ~SamePath(f, g)]_vars

\* Matches of two regions and the start of a region without a header have
\* all been written in one scan.
C25_Witness ==
    /\ ScanDone
    /\ FixedFiles # {}
    /\ \E f \in files : \E g \in files :
          /\ f.kind = "dex" /\ g.kind = "dex"
          /\ \E r \in 1 .. Len(Regions) :
                /\ f.addr \in MatchAddrsOf(Regions[r])
                /\ g.addr \notin MatchAddrsOf(Regions[r])

----------------------------------------------------------------------------
(* Header synthesis and the length of the buffer *)

\* The file-size field of a buffer.
DeclaredSize(buf) ==
    SubSeq(buf, DEX_FILE_SIZE_OFFSET + 1, DEX_FILE_SIZE_OFFSET + 4)

\* fix_dex_header on the first n bytes at address a returns a buffer exactly
\* when n >= 0x2c, and that buffer has n bytes and declares n as file size.
LengthKept(a, n) ==
    \A r \in { fix_dex_header(SpanBytes(Dex, a, n)) } :
        /\ r.kind = "ok" <=> n >= DEX_ENDIAN_TAG_OFFSET + 4
        /\ r.kind = "ok" => /\ Len(r.v) = n
                            /\ DeclaredSize(r.v) = LeU32(n)

\* C26: header synthesis never changes the length of the buffer: what it
\* returns has the input's length and declares that length as file size; for
\* an input of fewer than 0x2c bytes it returns nothing, and no file is
\* written for that region start.
C26_LengthPreserved ==
    /\ [](\A f \in FixedFiles :
             /\ Len(f.data) = f.size
             /\ DeclaredSize(f.data) = LeU32(f.size)
             /\ f.size >= DEX_ENDIAN_TAG_OFFSET + 4)
    /\ [](AtHeaderless =>
             \A n \in 0 .. DEX_HEADER_SIZE :
                 LengthKept(Regions[region_idx].start, n))
    /\ [][(/\ AtHeaderless
           /\ Recoverable(Regions[region_idx].start)
           /\ MapSum(Regions[region_idx].start) < DEX_ENDIAN_TAG_OFFSET + 4) =>
             /\ files' = files
             /\ pc' = "dex_region"
             /\ region_idx' = region_idx + 1]_vars

\* The scan has passed a region whose guess is one byte short of the endian
\* tag's end, and has written the file of a region whose guess is not.
C26_Witness ==
    /\ ScanDone
    /\ FixedFiles # {}
    /\ \E a \in HeaderlessCandidates : MapSum(a) = DEX_ENDIAN_TAG_OFFSET + 3

====
